---- MODULE Spec2Model ----
(***************************************************************************)
(* fix_index.py: a script that reads client/pages/Index.tsx, applies six   *)
(* re.sub substitutions in a fixed order to the text it read, writes the   *)
(* result back to the same path and prints a confirmation message.         *)
(*                                                                         *)
(* Text is modelled as a sequence of tokens.  A token is a maximal piece   *)
(* of text that the script's regular expressions treat as a unit: one      *)
(* literal segment of a pattern (the text between two \s+), a newline, a   *)
(* run of spaces (" "), or filler text that no pattern mentions.  The      *)
(* regular expressions are sequences of literal tokens and \s+ items and   *)
(* are matched the way re.sub matches them: leftmost, greedy with          *)
(* backtracking, non-overlapping, in one left-to-right pass.               *)
(***************************************************************************)
EXTENDS Integers, Sequences, FiniteSets

VARIABLES
    fileExists,   \* whether client/pages/Index.tsx exists
    writable,     \* whether the file may be opened for writing
    diskFull,     \* whether the device runs out of space during the write
    file,         \* the text stored at the path
    orig,         \* history: the document D stored at the path before any run
    pc,           \* pc[p]: where run p is in the script
    content,      \* content[p]: the script's variable `content`
    ruleIdx,      \* ruleIdx[p]: the next re.sub call to execute (1..NumRules)
    handle,       \* handle[p]: the file object run p holds ("none", "r", "w")
    stdout,       \* stdout[p]: the lines run p printed
    stderr,       \* stderr[p]: the uncaught exception reported, "" if none
    exitCode,     \* exitCode[p]: the process exit status, -1 while running
    matched,      \* history: matched[p][i] = matches rule i found in its input
    residual,     \* history: residual[p][i] = matches of rule i left in its output
    overlapped    \* history: a run started while another one was in progress

vars == <<fileExists, writable, diskFull, file, orig, pc, content, ruleIdx,
          handle, stdout, stderr, exitCode, matched, residual, overlapped>>

(***************************************************************************)
(* Bounds of the model.                                                    *)
(***************************************************************************)
\* the longest document of a single run, in fragments
MaxPieces == 2
\* the longest document two concurrent runs work on, in fragments
MaxRacePieces == 1
\* the most tokens a write that fails partway leaves behind
MaxPartial == 2

(***************************************************************************)
(* Tokens and patterns.                                                    *)
(***************************************************************************)
\* the regex item \s+
WS == "\\s+"

\* the characters \s matches: a newline, a run of spaces
IsSpace(t) == t \in {"\n", " "}

\* line 10: the import line, a literal followed by a literal newline
ImportPattern ==
    << "import { CustomCheckbox }",
       " from \"@/components/ui/custom-checkbox\";",
       "\n" >>

\* lines 14, 22, 30, 38: the four CustomCheckbox patterns differ in the setting only
CheckboxPattern(setting) ==
    << "<CustomCheckbox", WS,
       "checked={routeSettings." \o setting \o "}", WS,
       "onChange={(checked) =>", WS,
       "setRouteSettings((prev) => ({", WS,
       "...prev,", WS,
       setting \o ": checked,", WS,
       "}))", WS,
       "}", WS,
       "size=\"sm\"", WS,
       "/>" >>

\* a replacement text that is still a CustomCheckbox its own pattern matches
CheckboxReplacement_keepsTag(setting) ==
    [i \in 1..Len(CheckboxPattern(setting)) |->
        IF CheckboxPattern(setting)[i] = WS THEN "\n" ELSE CheckboxPattern(setting)[i]]

\* lines 15, 23, 31, 39: the replacement text, its lines separated by a
\* newline and the indentation of the next line
CheckboxReplacement(setting) ==
    << "<input", "\n", " ",
       "type=\"checkbox\"", "\n", " ",
       "checked={routeSettings." \o setting \o "}", "\n", " ",
       "onChange={(e) =>", "\n", " ",
       "setRouteSettings((prev) => ({", "\n", " ",
       "...prev,", "\n", " ",
       setting \o ": e.target.checked,", "\n", " ",
       "}))", "\n", " ",
       "}", "\n", " ",
       "className=\"w-4 h-4 accent-blue-600 cursor-pointer\"", "\n", " ",
       "/>" >>

\* line 45
zoom_slider_pattern ==
    << "<motion.div", WS,
       "className=\"flex items-center justify-between p-2 bg-muted/20 rounded border transition-all duration-200 hover:bg-muted/30\"", WS,
       "whileHover={{ scale: 1.01 }}", WS,
       "whileTap={{ scale: 0.99 }}", WS,
       ">", WS,
       "<div>", WS,
       "<p className=\"text-sm font-medium\">Zoom Level</p>", WS,
       "<p className=\"text-xs text-muted-foreground\">", WS,
       "{routeSettings.zoomLevel}", WS,
       "</p>", WS,
       "</div>", WS,
       "<input", WS,
       "type=\"range\"", WS,
       "min=\"10\"", WS,
       "max=\"20\"", WS,
       "value={routeSettings.zoomLevel}", WS,
       "onChange={(e) =>", WS,
       "setRouteSettings((prev) => ({", WS,
       "...prev,", WS,
       "zoomLevel: parseInt(e.target.value),", WS,
       "}))", WS,
       "}", WS,
       "className=\"w-16 h-2\"", WS,
       "/>", WS,
       "</motion.div>" >>

\* Rules with the zoom slider replaced by a newline instead of nothing
Rules_zoomLeavesNewline ==
    << [pattern |-> ImportPattern, repl |-> << >>],
       [pattern |-> CheckboxPattern("showTraffic"),
        repl |-> CheckboxReplacement("showTraffic")],
       [pattern |-> CheckboxPattern("showSafeZones"),
        repl |-> CheckboxReplacement("showSafeZones")],
       [pattern |-> CheckboxPattern("showEmergencyServices"),
        repl |-> CheckboxReplacement("showEmergencyServices")],
       [pattern |-> CheckboxPattern("showDebug"),
        repl |-> CheckboxReplacement("showDebug")],
       [pattern |-> zoom_slider_pattern, repl |-> <<"\n">>] >>

\* lines 10-47: the substitutions in the order the script makes them
Rules ==
    << [pattern |-> ImportPattern, repl |-> << >>],
       [pattern |-> CheckboxPattern("showTraffic"),
        repl |-> CheckboxReplacement("showTraffic")],
       [pattern |-> CheckboxPattern("showSafeZones"),
        repl |-> CheckboxReplacement("showSafeZones")],
       [pattern |-> CheckboxPattern("showEmergencyServices"),
        repl |-> CheckboxReplacement("showEmergencyServices")],
       [pattern |-> CheckboxPattern("showDebug"),
        repl |-> CheckboxReplacement("showDebug")],
       [pattern |-> zoom_slider_pattern, repl |-> << >>] >>

NumRules == Len(Rules)

\* the positions of the rules the claims name
ImportRule == 1
TrafficRule == 2
ZoomRule == NumRules

(***************************************************************************)
(* re.sub.                                                                 *)
(***************************************************************************)
RECURSIVE SpaceRun(_, _)
\* the length of the run of whitespace tokens that starts at doc[i]
SpaceRun(doc, i) ==
    IF i <= Len(doc) /\ IsSpace(doc[i]) THEN 1 + SpaceRun(doc, i + 1) ELSE 0

RECURSIVE Flatten(_)
\* the concatenation of a sequence of sequences
Flatten(seqs) == IF seqs = << >> THEN << >> ELSE Head(seqs) \o Flatten(Tail(seqs))

RECURSIVE MatchEnds(_, _, _, _, _)
\* items lo..hi of pat matched at doc[i]: the positions after each possible
\* match, in the order the backtracking matcher tries them.  \s+ is greedy:
\* the longest run first, then shorter ones, at least one token.  A
\* concatenation tries the ends of its first half in order and, for each,
\* the ends of its second half in order.
MatchEnds(pat, lo, hi, doc, i) ==
    IF lo > hi THEN <<i>>
    ELSE IF lo = hi
    THEN IF pat[lo] = WS
         THEN LET n == SpaceRun(doc, i) IN [m \in 1..n |-> i + n - m + 1]
         ELSE IF i <= Len(doc) /\ doc[i] = pat[lo] THEN <<i + 1>> ELSE << >>
    ELSE LET mid == (lo + hi) \div 2
             first == MatchEnds(pat, lo, mid, doc, i)
         IN  Flatten([n \in 1..Len(first) |->
                         MatchEnds(pat, mid + 1, hi, doc, first[n])])

\* re.match at doc[i]: the position after the match, 0 if there is none
MatchEnd(pat, doc, i) ==
    LET ends == MatchEnds(pat, 1, Len(pat), doc, i)
    IN  IF ends = << >> THEN 0 ELSE ends[1]

\* the first position at or after i where the pattern matches, 0 if none
NextMatch(pat, doc, i) ==
    LET S == {j \in i..Len(doc) :
                 /\ pat[1] = WS \/ doc[j] = pat[1]
                 /\ MatchEnd(pat, doc, j) # 0}
    IN  IF S = {} THEN 0 ELSE CHOOSE j \in S : \A k \in S : j <= k

\* re.sub(pattern, repl, doc, count=1): only the first match is replaced
Sub_firstOnly(pat, repl, doc) ==
    LET j == NextMatch(pat, doc, 1)
    IN  IF j = 0 THEN doc
        ELSE SubSeq(doc, 1, j - 1) \o repl
                 \o SubSeq(doc, MatchEnd(pat, doc, j), Len(doc))

RECURSIVE SubFrom(_, _, _, _)
\* the scan of re.sub from doc[i]: the text up to the next match is copied,
\* the match is replaced and the scan resumes after it
SubFrom(pat, repl, doc, i) ==
    LET j == NextMatch(pat, doc, i)
    IN  IF j = 0 THEN SubSeq(doc, i, Len(doc))
        ELSE SubSeq(doc, i, j - 1) \o repl
                 \o SubFrom(pat, repl, doc, MatchEnd(pat, doc, j))

\* re.sub(pattern, repl, doc)
Sub(pat, repl, doc) == SubFrom(pat, repl, doc, 1)

RECURSIVE CountFrom(_, _, _)
CountFrom(pat, doc, i) ==
    LET j == NextMatch(pat, doc, i)
    IN  IF j = 0 THEN 0 ELSE 1 + CountFrom(pat, doc, MatchEnd(pat, doc, j))

\* the number of non-overlapping matches the scan finds
Count(pat, doc) == CountFrom(pat, doc, 1)

\* whether the pattern matches anywhere in doc
Occurs(pat, doc) == NextMatch(pat, doc, 1) # 0

RECURSIVE ApplyOrder(_, _)
\* the rules named by order applied one after the other, each to the output
\* of the one before
ApplyOrder(order, doc) ==
    IF order = << >> THEN doc
    ELSE ApplyOrder(Tail(order),
                    Sub(Rules[Head(order)].pattern, Rules[Head(order)].repl, doc))

\* the order of the re.sub calls in the script
DeclaredOrder == [i \in 1..NumRules |-> i]

\* the whole chain of lines 10-47
Apply(doc) == ApplyOrder(DeclaredOrder, doc)

\* whether any rule's pattern matches in doc
AnyPattern(doc) == \E i \in 1..NumRules : Occurs(Rules[i].pattern, doc)

(***************************************************************************)
(* Documents.  A document is a concatenation of fragments: filler text,    *)
(* whitespace, a block in the layout a pattern matches, or a block with    *)
(* another block pasted after its first token.                             *)
(***************************************************************************)
\* text that matches pat, every \s+ being one newline
Block(pat) == [i \in 1..Len(pat) |-> IF pat[i] = WS THEN "\n" ELSE pat[i]]

\* inner pasted into outer after outer's first token
Nest(outer, inner) == <<Head(outer)>> \o inner \o Tail(outer)

Blocks == {Block(Rules[i].pattern) : i \in 1..NumRules}

Nested ==
    {Nest(Block(Rules[o].pattern), Block(Rules[i].pattern)) :
        o \in {ImportRule, TrafficRule, ZoomRule}, i \in {ImportRule, ZoomRule}}

Fragments == {<<"<Other />">>, <<"\n">>} \cup Blocks \cup Nested

RECURSIVE DocsOf(_)
\* the documents of at most n fragments
DocsOf(n) ==
    IF n = 0 THEN {<< >>}
    ELSE LET S == DocsOf(n - 1) IN S \cup {d \o f : d \in S, f \in Fragments}

(***************************************************************************)
(* The script as a state machine, one instance per run.                    *)
(***************************************************************************)
\* line 53
ConfirmationMsg ==
    "Fixed Index.tsx - replaced CustomCheckbox components with standard checkboxes and removed zoom slider"

Procs == DOMAIN pc

\* data written at offset 0 of a file that holds f
Overlay(f, data) == data \o SubSeq(f, Len(data) + 1, Len(f))

Min(a, b) == IF a < b THEN a ELSE b

InitWith(procs, docs) ==
    /\ fileExists \in BOOLEAN
    /\ writable \in BOOLEAN
    /\ diskFull \in BOOLEAN
    /\ file \in docs
    /\ ~fileExists => (file = << >> /\ writable /\ ~diskFull)
    /\ ~writable => ~diskFull
    /\ orig = file
    /\ pc = [p \in procs |-> "start"]
    /\ content = [p \in procs |-> << >>]
    /\ ruleIdx = [p \in procs |-> 1]
    /\ handle = [p \in procs |-> "none"]
    /\ stdout = [p \in procs |-> << >>]
    /\ stderr = [p \in procs |-> ""]
    /\ exitCode = [p \in procs |-> -1]
    /\ matched = [p \in procs |-> << >>]
    /\ residual = [p \in procs |-> << >>]
    /\ overlapped = FALSE

\* one run of the script, in any environment
Init == InitWith({1}, DocsOf(MaxPieces))

\* two runs of the script on the same path, nothing failing
InitRace ==
    /\ InitWith({1, 2}, DocsOf(MaxRacePieces))
    /\ fileExists /\ writable /\ ~diskFull

\* an uncaught exception: the traceback goes to stderr, the exit status is 1
Raise(p, exc) ==
    /\ stderr' = [stderr EXCEPT ![p] = exc]
    /\ exitCode' = [exitCode EXCEPT ![p] = 1]
    /\ pc' = [pc EXCEPT ![p] = "exited"]

\* OpenRead with the file opened in a mode that creates it ('a+')
OpenRead_creates(p) ==
    /\ pc[p] = "start"
    /\ overlapped' = (overlapped \/ \E q \in Procs \ {p} : pc[q] \notin {"start", "exited"})
    /\ fileExists' = TRUE
    /\ handle' = [handle EXCEPT ![p] = "r"]
    /\ pc' = [pc EXCEPT ![p] = "read"]
    /\ UNCHANGED <<writable, diskFull, file, orig, content, ruleIdx, stdout,
                   stderr, exitCode, matched, residual>>

\* line 6: open('client/pages/Index.tsx', 'r')
OpenRead(p) ==
    /\ pc[p] = "start"
    /\ overlapped' = (overlapped \/ \E q \in Procs \ {p} : pc[q] \notin {"start", "exited"})
    /\ IF fileExists
       THEN /\ handle' = [handle EXCEPT ![p] = "r"]
            /\ pc' = [pc EXCEPT ![p] = "read"]
            /\ UNCHANGED <<stderr, exitCode>>
       ELSE /\ Raise(p, "FileNotFoundError")
            /\ UNCHANGED handle
    /\ UNCHANGED <<fileExists, writable, diskFull, file, orig, content, ruleIdx,
                   stdout, matched, residual>>

\* the text read with its leading and trailing whitespace dropped
Strip(doc) ==
    LET S == {j \in 1..Len(doc) : ~IsSpace(doc[j])}
    IN  IF S = {} THEN << >>
        ELSE SubSeq(doc, CHOOSE j \in S : \A k \in S : j <= k,
                         CHOOSE j \in S : \A k \in S : j >= k)

\* ReadAll with content = f.read().strip()
ReadAll_strip(p) ==
    /\ pc[p] = "read"
    /\ content' = [content EXCEPT ![p] = Strip(file)]
    /\ handle' = [handle EXCEPT ![p] = "none"]
    /\ pc' = [pc EXCEPT ![p] = "rules"]
    /\ UNCHANGED <<fileExists, writable, diskFull, file, orig, ruleIdx, stdout,
                   stderr, exitCode, matched, residual, overlapped>>

\* line 7: content = f.read(), and the end of the with block closes f
ReadAll(p) ==
    /\ pc[p] = "read"
    /\ content' = [content EXCEPT ![p] = file]
    /\ handle' = [handle EXCEPT ![p] = "none"]
    /\ pc' = [pc EXCEPT ![p] = "rules"]
    /\ UNCHANGED <<fileExists, writable, diskFull, file, orig, ruleIdx, stdout,
                   stderr, exitCode, matched, residual, overlapped>>

\* ApplyRule with every re.sub given the text that was read, not the
\* output of the call before
ApplyRule_onOriginal(p) ==
    /\ pc[p] = "rules"
    /\ LET r == Rules[ruleIdx[p]]
           out == Sub(r.pattern, r.repl, orig)
       IN  /\ content' = [content EXCEPT ![p] = out]
           /\ matched' = [matched EXCEPT ![p] = Append(@, Count(r.pattern, orig))]
           /\ residual' = [residual EXCEPT ![p] = Append(@, Count(r.pattern, out))]
    /\ ruleIdx' = [ruleIdx EXCEPT ![p] = @ + 1]
    /\ pc' = [pc EXCEPT ![p] = IF ruleIdx[p] = NumRules THEN "open_w" ELSE "rules"]
    /\ UNCHANGED <<fileExists, writable, diskFull, file, orig, handle, stdout,
                   stderr, exitCode, overlapped>>

\* lines 10-47: content = re.sub(pattern, repl, content), one call per step
ApplyRule(p) ==
    /\ pc[p] = "rules"
    /\ LET r == Rules[ruleIdx[p]]
           out == Sub(r.pattern, r.repl, content[p])
       IN  /\ content' = [content EXCEPT ![p] = out]
           /\ matched' = [matched EXCEPT ![p] = Append(@, Count(r.pattern, content[p]))]
           /\ residual' = [residual EXCEPT ![p] = Append(@, Count(r.pattern, out))]
    /\ ruleIdx' = [ruleIdx EXCEPT ![p] = @ + 1]
    /\ pc' = [pc EXCEPT ![p] = IF ruleIdx[p] = NumRules THEN "open_w" ELSE "rules"]
    /\ UNCHANGED <<fileExists, writable, diskFull, file, orig, handle, stdout,
                   stderr, exitCode, overlapped>>

\* OpenWrite with the file opened in a mode that does not truncate it ('r+')
OpenWrite_noTruncate(p) ==
    /\ pc[p] = "open_w"
    /\ IF writable
       THEN /\ handle' = [handle EXCEPT ![p] = "w"]
            /\ pc' = [pc EXCEPT ![p] = "write"]
            /\ UNCHANGED <<stderr, exitCode>>
       ELSE /\ Raise(p, "PermissionError")
            /\ UNCHANGED handle
    /\ UNCHANGED <<file, fileExists, writable, diskFull, orig, content, ruleIdx,
                   stdout, matched, residual, overlapped>>

\* line 50: open('client/pages/Index.tsx', 'w') truncates the file
OpenWrite(p) ==
    /\ pc[p] = "open_w"
    /\ IF writable
       THEN /\ file' = << >>
            /\ fileExists' = TRUE
            /\ handle' = [handle EXCEPT ![p] = "w"]
            /\ pc' = [pc EXCEPT ![p] = "write"]
            /\ UNCHANGED <<stderr, exitCode>>
       ELSE /\ Raise(p, "PermissionError")
            /\ UNCHANGED <<file, fileExists, handle>>
    /\ UNCHANGED <<writable, diskFull, orig, content, ruleIdx, stdout, matched,
                   residual, overlapped>>

\* line 51: f.write(content), at offset 0 of the file this run truncated
Write(p) ==
    /\ pc[p] = "write"
    /\ IF diskFull /\ content[p] # << >>
       THEN \E k \in 0..Min(MaxPartial, Len(content[p]) - 1) :
                /\ file' = Overlay(file, SubSeq(content[p], 1, k))
                /\ stderr' = [stderr EXCEPT ![p] = "OSError"]
                /\ pc' = [pc EXCEPT ![p] = "close_err"]
       ELSE /\ file' = Overlay(file, content[p])
            /\ pc' = [pc EXCEPT ![p] = "close"]
            /\ UNCHANGED stderr
    /\ UNCHANGED <<fileExists, writable, diskFull, orig, content, ruleIdx, handle,
                   stdout, exitCode, matched, residual, overlapped>>

\* CloseWrite with the exception of a failed write swallowed
CloseWrite_swallow(p) ==
    /\ pc[p] \in {"close", "close_err"}
    /\ handle' = [handle EXCEPT ![p] = "none"]
    /\ pc' = [pc EXCEPT ![p] = "print"]
    /\ UNCHANGED <<fileExists, writable, diskFull, file, orig, content, ruleIdx,
                   stdout, stderr, exitCode, matched, residual, overlapped>>

\* line 50-51: the end of the with block closes f, after a failed write too
CloseWrite(p) ==
    /\ pc[p] \in {"close", "close_err"}
    /\ handle' = [handle EXCEPT ![p] = "none"]
    /\ IF pc[p] = "close"
       THEN /\ pc' = [pc EXCEPT ![p] = "print"]
            /\ UNCHANGED exitCode
       ELSE /\ exitCode' = [exitCode EXCEPT ![p] = 1]
            /\ pc' = [pc EXCEPT ![p] = "exited"]
    /\ UNCHANGED <<fileExists, writable, diskFull, file, orig, content, ruleIdx,
                   stdout, stderr, matched, residual, overlapped>>

\* line 53: print(...), then the script ends with status 0
PrintConfirmation(p) ==
    /\ pc[p] = "print"
    /\ stdout' = [stdout EXCEPT ![p] = Append(@, ConfirmationMsg)]
    /\ exitCode' = [exitCode EXCEPT ![p] = 0]
    /\ pc' = [pc EXCEPT ![p] = "exited"]
    /\ UNCHANGED <<fileExists, writable, diskFull, file, orig, content, ruleIdx,
                   handle, stderr, matched, residual, overlapped>>

Next ==
    \/ \E p \in Procs : OpenRead(p)
    \/ \E p \in Procs : ReadAll(p)
    \/ \E p \in Procs : ApplyRule(p)
    \/ \E p \in Procs : OpenWrite(p)
    \/ \E p \in Procs : Write(p)
    \/ \E p \in Procs : CloseWrite(p)
    \/ \E p \in Procs : PrintConfirmation(p)

Spec == Init /\ [][Next]_vars

SpecRace == InitRace /\ [][Next]_vars

(***************************************************************************)
(* Properties.                                                             *)
(***************************************************************************)
TrafficPattern == Rules[TrafficRule].pattern
TrafficRepl == Rules[TrafficRule].repl
ImportLine == Rules[ImportRule].pattern
ZoomPattern == Rules[ZoomRule].pattern

\* the order of the script with its first two rules exchanged
SwappedOrder ==
    [i \in 1..NumRules |->
        IF i = ImportRule THEN TrafficRule ELSE IF i = TrafficRule THEN ImportRule ELSE i]

\* C1: the rules run in their declared order, each on the output of the one
\* before: once the last re.sub has returned, content is the declared chain
\* applied to the document that was read.  For a document in which the
\* Traffic pattern (rule 2) matches only once rule 1 has removed an import
\* line, rule 2 fires and its replacement text is in the result, while the
\* chain with rules 1 and 2 exchanged leaves the Traffic block unreplaced
\* and gives a different document.
C1_RulesChainInOrder ==
    \A p \in Procs :
        pc[p] = "open_w" =>
            /\ content[p] = Apply(orig)
            /\ (~Occurs(TrafficPattern, orig) /\ Occurs(TrafficPattern, Sub(ImportLine, << >>, orig)))
                   => /\ matched[p][TrafficRule] > 0
                      /\ Occurs(TrafficRepl, content[p])
                      /\ LET rev == ApplyOrder(SwappedOrder, orig)
                         IN  /\ Occurs(TrafficPattern, rev)
                             /\ ~Occurs(TrafficRepl, rev)
                             /\ rev # content[p]

\* a run has applied all rules to a document whose Traffic block is split by
\* an import line, and rule 2 fired
C1_Witness ==
    \E p \in Procs :
        /\ pc[p] = "open_w"
        /\ ~Occurs(TrafficPattern, orig)
        /\ matched[p][TrafficRule] > 0

\* whether no rule of run p found a match
NothingMatched(p) ==
    /\ Len(matched[p]) = NumRules
    /\ \A i \in 1..NumRules : matched[p][i] = 0

\* C3: a rule that matches nothing is a no-op and raises nothing: when no
\* rule matched, the content after the rules is the document read, and a run
\* that meets no I/O failure ends with status 0, the file identical to the
\* one read and the confirmation printed.
C3_NoMatchIsNoOp ==
    \A p \in Procs :
        NothingMatched(p) =>
            /\ pc[p] = "open_w" => (content[p] = orig /\ stderr[p] = "")
            /\ (pc[p] = "exited" /\ fileExists /\ writable /\ ~diskFull)
                   => /\ exitCode[p] = 0
                      /\ file = orig
                      /\ stdout[p] = <<ConfirmationMsg>>

\* a run on a non-empty file that holds none of the patterns has ended
C3_Witness ==
    \E p \in Procs :
        /\ pc[p] = "exited"
        /\ exitCode[p] = 0
        /\ orig # << >>
        /\ ~AnyPattern(orig)
        /\ Len(matched[p]) = NumRules

\* C4: while the input file does not exist no step creates it, opens it for
\* writing or prints; the only step a run takes ends it with
\* FileNotFoundError and exit status 1.
C4_MissingInputIsFatal ==
    [][~fileExists =>
          /\ ~fileExists'
          /\ file' = file
          /\ \A p \in Procs :
                /\ handle'[p] = "none"
                /\ stdout'[p] = << >>
                /\ pc'[p] # pc[p] =>
                      /\ pc'[p] = "exited"
                      /\ exitCode'[p] = 1
                      /\ stderr'[p] = "FileNotFoundError"]_vars

\* a run has ended on a missing file
C4_Witness ==
    \E p \in Procs : ~fileExists /\ pc[p] = "exited" /\ exitCode[p] = 1

\* C5: a failed save is never reported as success.  A run whose open for
\* writing or write raised has printed nothing and, once ended, has a
\* non-zero status; the confirmation is printed only by a run that has ended
\* with status 0, holds no file handle, raised nothing, and whose content is
\* completely in the file; the run reaches the print only with the file
\* closed.
C5_WriteFailureNotSuccess ==
    \A p \in Procs :
        /\ stderr[p] \in {"PermissionError", "OSError"}
               => /\ stdout[p] = << >>
                  /\ pc[p] \in {"close_err", "exited"}
                  /\ pc[p] = "exited" => exitCode[p] # 0
        /\ stdout[p] # << >>
               => /\ pc[p] = "exited"
                  /\ exitCode[p] = 0
                  /\ handle[p] = "none"
                  /\ stderr[p] = ""
                  /\ file = content[p]
        /\ pc[p] = "print" => (handle[p] = "none" /\ file = content[p])

\* a run has ended after a write that failed partway
C5_Witness ==
    \E p \in Procs :
        /\ pc[p] = "exited"
        /\ stderr[p] = "OSError"
        /\ file # content[p]
        /\ file # << >>

\* C2 as stated: applying the rule list to its own output changes nothing,
\* for every document.
C2_IdempotentForEveryDocument ==
    \A p \in Procs : pc[p] = "open_w" => Apply(Apply(orig)) = Apply(orig)

\* C2 as amended: applying the rule list to its own output changes nothing
\* exactly when no rule's pattern matches that output, and a pattern matches
\* the output only if rule 1 left an import line behind or the zoom-slider
\* rule removed a block: the replacement texts of the checkbox rules are
\* never matched again.
C2_IdempotentUnlessRemovalJoins ==
    \A p \in Procs :
        pc[p] = "open_w" =>
            /\ (Apply(content[p]) = content[p]) <=> ~AnyPattern(content[p])
            /\ (residual[p][ImportRule] = 0 /\ matched[p][ZoomRule] = 0)
                   => ~AnyPattern(content[p])

\* the rules changed a document and none of their patterns matches the result
C2_Witness ==
    \E p \in Procs :
        /\ pc[p] = "open_w"
        /\ content[p] # orig
        /\ matched[p][TrafficRule] > 0
        /\ ~AnyPattern(content[p])

\* C6 as stated: the file at the path always holds the complete original
\* document or the complete transformed one.
C6_FileNeverCorrupted == file = orig \/ file = Apply(orig)

BothDone == \A p \in Procs : pc[p] = "exited"

\* C7 as stated, its second half: when the two runs are serialized the final
\* content is apply(D, R).
C7_SerializedGivesApply == (BothDone /\ ~overlapped) => file = Apply(orig)

\* C7 as amended: nothing locks the file or detects a concurrent run, so
\* every run that ends reports success; when the two runs are serialized the
\* final content is the rule list applied twice, apply(apply(D, R), R), which
\* is apply(D, R) when no pattern matches apply(D, R).
C7_SerializedRunsCompose ==
    /\ \A p \in Procs :
           pc[p] = "exited" => (exitCode[p] = 0 /\ stdout[p] = <<ConfirmationMsg>>)
    /\ (BothDone /\ ~overlapped) =>
           /\ file = Apply(Apply(orig))
           /\ ~AnyPattern(Apply(orig)) => file = Apply(orig)

\* two overlapping runs have both reported success and the file holds
\* neither apply(D, R) nor the rule list applied twice
C7_Witness ==
    /\ BothDone
    /\ overlapped
    /\ \A p \in Procs : exitCode[p] = 0 /\ stdout[p] = <<ConfirmationMsg>>
    /\ file # Apply(orig)
    /\ file # Apply(Apply(orig))

\* a successful run on an input that holds the import line and a Traffic block
TrafficCase(p) ==
    /\ pc[p] = "exited"
    /\ exitCode[p] = 0
    /\ Occurs(ImportLine, orig)
    /\ Occurs(TrafficPattern, orig)

\* C8 as stated: every Traffic block has been replaced by the literal input
\* block, no Traffic block remains and the import line is absent.
C8_NoTrafficNoImportLeft ==
    \A p \in Procs :
        TrafficCase(p) =>
            /\ matched[p][TrafficRule] >= 1
            /\ Count(TrafficRepl, file) >= matched[p][TrafficRule]
            /\ ~Occurs(TrafficPattern, file)
            /\ ~Occurs(ImportLine, file)

\* C8 as amended: every Traffic block rule 2 finds is replaced by the literal
\* input block, which is still in the output, and none is left when rule 2
\* returns; the output holds a Traffic block only if the zoom-slider rule
\* removed a block, and the import line only if that rule removed a block or
\* rule 1 left an import line behind.
C8_TrafficReplacedGlobally ==
    \A p \in Procs :
        TrafficCase(p) =>
            /\ matched[p][TrafficRule] >= 1
            /\ Count(TrafficRepl, file) >= matched[p][TrafficRule]
            /\ residual[p][TrafficRule] = 0
            /\ matched[p][ZoomRule] = 0 => ~Occurs(TrafficPattern, file)
            /\ (matched[p][ZoomRule] = 0 /\ residual[p][ImportRule] = 0)
                   => ~Occurs(ImportLine, file)

\* a successful run has replaced two Traffic blocks and removed the import line
C8_Witness ==
    \E p \in Procs :
        /\ TrafficCase(p)
        /\ matched[p][TrafficRule] = 2
        /\ Count(TrafficRepl, file) = 2
        /\ ~Occurs(TrafficPattern, file)
        /\ ~Occurs(ImportLine, file)

\* a successful run in which the zoom-slider rule matched once and no other
\* rule matched
ZoomCase(p) ==
    /\ pc[p] = "exited"
    /\ exitCode[p] = 0
    /\ matched[p][ZoomRule] = 1
    /\ \A i \in 1..NumRules : i # ZoomRule => matched[p][i] = 0

\* the text of orig before the leftmost zoom-slider block
ZoomBefore == SubSeq(orig, 1, NextMatch(ZoomPattern, orig, 1) - 1)

\* the text of orig after the leftmost zoom-slider block
ZoomAfter ==
    SubSeq(orig, MatchEnd(ZoomPattern, orig, NextMatch(ZoomPattern, orig, 1)), Len(orig))

\* C9 as stated: the output is the text before the block followed by the
\* text after it, and holds no zoom-slider block.
C9_ZoomBlockAbsent ==
    \A p \in Procs :
        ZoomCase(p) =>
            /\ file = ZoomBefore \o ZoomAfter
            /\ ~Occurs(ZoomPattern, file)

\* C9 as amended: the matched block is removed and nothing else changes: the
\* output is the text before the block followed by the text after it, and
\* neither of the two holds a zoom-slider block (the output holds one only
\* where the two join).
C9_ZoomSpanRemoved ==
    \A p \in Procs :
        ZoomCase(p) =>
            /\ file = ZoomBefore \o ZoomAfter
            /\ ~Occurs(ZoomPattern, ZoomBefore)
            /\ ~Occurs(ZoomPattern, ZoomAfter)

\* a successful run has removed a zoom-slider block that had text on both sides
C9_Witness ==
    \E p \in Procs :
        /\ ZoomCase(p)
        /\ ZoomBefore # << >>
        /\ ZoomAfter # << >>
        /\ ~Occurs(ZoomPattern, file)

\* what run p changed: the component replacements and the removed blocks
Changes(p) ==
    << matched[p][2] + matched[p][3] + matched[p][4] + matched[p][5],
       matched[p][ImportRule] + matched[p][ZoomRule] >>

\* C10 as stated: the confirmation carries the counts of what the run
\* changed, so two runs that changed different numbers of things print
\* different reports.
C10_ReportCarriesCounts ==
    \A p, q \in Procs :
        (/\ stdout[p] # << >>
         /\ stdout[q] # << >>
         /\ Changes(p) # Changes(q)) => stdout[p] # stdout[q]

====
